---- MODULE Spec2Model ----
(***************************************************************************)
(* Model of src/lib.rs: the ControlFlow signal, the EventsLoop trait as    *)
(* implemented by tests::Loop (the only implementation in the crate), and  *)
(* the EventsLoopClosed error with its Display and Error impls.            *)
(*                                                                         *)
(* The crate contains no implementation of EventsLoopProxy: wakeup and     *)
(* clone are trait declarations only, and tests::Loop::create_proxy is     *)
(* unimplemented!().  The model therefore has no proxy state.              *)
(*                                                                         *)
(* Text is modelled as the sequence of its UTF-8 bytes.                    *)
(***************************************************************************)
EXTENDS Integers, Sequences, FiniteSets, TLC

(* ---- bounds ---- *)

\* largest K of a callback that returns Continue K times and then Break
MaxK == 2

\* number of poll_events / run calls the client makes on the loop
MaxOps == 3

\* number of fmt calls, and of description calls, the client makes
MaxFmt == 2

\* cap on callback invocations inside one run call (a callback that never
\* returns Break would otherwise be invoked without bound)
MaxCalls == MaxK + 2

(* ---- ControlFlow, Events ---- *)

ControlFlow == {"Continue", "Break"}

Events == {"A", "B", "C"}

(* ---- callbacks handed to the loop ---- *)

\* The callback policies given to run: [breaks |-> TRUE, K |-> k] returns
\* Continue on its first k invocations and Break afterwards;
\* [breaks |-> FALSE] returns Continue on every invocation.
Policies ==
    {[breaks |-> TRUE, K |-> k] : k \in 0..MaxK} \cup {[breaks |-> FALSE, K |-> 0]}

\* Result of the callback on its (n+1)-th invocation.
c(p, n) == IF p.breaks /\ n >= p.K THEN "Break" ELSE "Continue"

\* The recording part of a callback: it remembers the event it was given.
Record(r, e) == Append(r, e)

(* ---- tests::Loop ---- *)

\* mutant: poll_events hands out B first
FirstEvent_swapped == "B"

\* first event poll_events gives to the callback: c(Events::A)
FirstEvent == "A"

\* mutant: poll_events hands out A a second time
SecondEvent_repeated == "A"

\* second event poll_events gives to the callback: c(Events::B)
SecondEvent == "B"

\* event run gives to the callback: c(Events::C)
RunEvent == "C"

\* mutant: the loop goes on whatever the callback returned
RunContinues_always(r) == TRUE

\* mutant: the loop body is left after the first invocation
RunContinues_once(r) == FALSE

\* the loop condition of run: while c(Events::C) == ControlFlow::Continue
RunContinues(r) == r = "Continue"

(* ---- EventsLoopClosed ---- *)

\* mutant: the message with "event loop" spelled out
description_plain ==
    <<84, 114, 105, 101, 100, 32,        \* "Tried "
      116, 111, 32,                      \* "to "
      119, 97, 107, 101, 32,             \* "wake "
      117, 112, 32,                      \* "up "
      97, 32,                            \* "a "
      99, 108, 111, 115, 101, 100, 32,   \* "closed "
      101, 118, 101, 110, 116, 32,       \* "event "
      108, 111, 111, 112>>               \* "loop"

\* Error::description: the literal of line 80; 96 is the backquote
description ==
    <<84, 114, 105, 101, 100, 32,        \* "Tried "
      116, 111, 32,                      \* "to "
      119, 97, 107, 101, 32,             \* "wake "
      117, 112, 32,                      \* "up "
      97, 32,                            \* "a "
      99, 108, 111, 115, 101, 100, 32,   \* "closed "
      96,                                \* backquote
      69, 118, 101, 110, 116, 115,       \* "Events"
      76, 111, 111, 112,                 \* "Loop"
      96>>                               \* backquote

\* The format string of Display::fmt, "{}": one placeholder, no literal text.
FmtPieces == <<[hole |-> TRUE, lit |-> <<>>]>>

\* write!(f, pieces, arg): literal pieces are copied, each placeholder is
\* replaced by the argument (a &str with no width or precision is written
\* as it is).
RECURSIVE write(_, _)
write(pieces, arg) ==
    IF pieces = <<>> THEN <<>>
    ELSE (IF Head(pieces).hole THEN arg ELSE Head(pieces).lit)
             \o write(Tail(pieces), arg)

\* What the formatter may already hold when fmt is called: nothing, or
\* "error: ".
Prefixes == {<<>>, <<101, 114, 114, 111, 114, 58, 32>>}

(* ---- state ---- *)

VARIABLES
    pc,        \* position of the thread that owns the loop
    last,      \* the call that returned most recently: "none", "poll", "run"
    ops,       \* number of poll_events / run calls made so far
    policy,    \* the callback policy of the current run call
    rec,       \* events the callback received during the current call
    results,   \* what the callback returned during the current run call
    pollLog,   \* events delivered by poll_events, over all its calls
    polls,     \* number of poll_events calls that have returned
    out,       \* the formatter's buffer
    shown,     \* what each fmt call wrote into the buffer
    descs      \* what each description call returned

vars == <<pc, last, ops, policy, rec, results, pollLog, polls, out, shown, descs>>

loopVars == <<pc, last, ops, policy, rec, results, pollLog, polls>>

errVars == <<out, shown, descs>>

Init ==
    /\ pc = "idle"
    /\ last = "none"
    /\ ops = 0
    /\ policy = [breaks |-> TRUE, K |-> 0]
    /\ rec = <<>>
    /\ results = <<>>
    /\ pollLog = <<>>
    /\ polls = 0
    /\ out \in Prefixes
    /\ shown = <<>>
    /\ descs = <<>>

(* ---- tests::Loop::poll_events ---- *)

\* the client calls poll_events with a recording callback
poll_events ==
    /\ pc = "idle"
    /\ ops < MaxOps
    /\ ops' = ops + 1
    /\ pc' = "poll_1"
    /\ last' = "none"
    /\ rec' = <<>>
    /\ results' = <<>>
    /\ UNCHANGED <<policy, pollLog, polls>>
    /\ UNCHANGED errVars

\* c(Events::A)
poll_events_1 ==
    /\ pc = "poll_1"
    /\ rec' = Record(rec, FirstEvent)
    /\ pollLog' = Append(pollLog, FirstEvent)
    /\ pc' = "poll_2"
    /\ UNCHANGED <<last, ops, policy, results, polls>>
    /\ UNCHANGED errVars

\* c(Events::B), after which poll_events returns
poll_events_2 ==
    /\ pc = "poll_2"
    /\ rec' = Record(rec, SecondEvent)
    /\ pollLog' = Append(pollLog, SecondEvent)
    /\ pc' = "idle"
    /\ last' = "poll"
    /\ polls' = polls + 1
    /\ UNCHANGED <<ops, policy, results>>
    /\ UNCHANGED errVars

(* ---- tests::Loop::run ---- *)

\* the client calls run with a callback following policy p
run ==
    /\ pc = "idle"
    /\ ops < MaxOps
    /\ \E p \in Policies : policy' = p
    /\ ops' = ops + 1
    /\ pc' = "run_call"
    /\ last' = "none"
    /\ rec' = <<>>
    /\ results' = <<>>
    /\ UNCHANGED <<pollLog, polls>>
    /\ UNCHANGED errVars

\* c(Events::C): the callback is invoked and returns its ControlFlow
run_callback ==
    /\ pc = "run_call"
    /\ Len(results) < MaxCalls
    /\ rec' = Record(rec, RunEvent)
    /\ results' = Append(results, c(policy, Len(results)))
    /\ pc' = "run_test"
    /\ UNCHANGED <<last, ops, policy, pollLog, polls>>
    /\ UNCHANGED errVars

\* the while condition: go round again on Continue, otherwise return
run_while ==
    /\ pc = "run_test"
    /\ IF RunContinues(results[Len(results)])
       THEN /\ pc' = "run_call"
            /\ last' = last
       ELSE /\ pc' = "idle"
            /\ last' = "run"
    /\ UNCHANGED <<ops, policy, rec, results, pollLog, polls>>
    /\ UNCHANGED errVars

(* ---- tests::Loop::create_proxy ---- *)

\* unimplemented!(): the call panics and the thread that owns the loop ends
create_proxy ==
    /\ pc = "idle"
    /\ pc' = "panicked"
    /\ UNCHANGED <<last, ops, policy, rec, results, pollLog, polls>>
    /\ UNCHANGED errVars

(* ---- EventsLoopClosed: Display and Error ---- *)

\* Display::fmt: write!(f, "{}", Error::description(self))
fmt ==
    /\ Len(shown) < MaxFmt
    /\ out' = out \o write(FmtPieces, description)
    /\ shown' = Append(shown, SubSeq(out', Len(out) + 1, Len(out')))
    /\ UNCHANGED descs
    /\ UNCHANGED loopVars

\* a call of Error::description
call_description ==
    /\ Len(descs) < MaxFmt
    /\ descs' = Append(descs, description)
    /\ UNCHANGED <<out, shown>>
    /\ UNCHANGED loopVars

(* ---- specifications ---- *)

Next ==
    \/ poll_events
    \/ poll_events_1
    \/ poll_events_2
    \/ run
    \/ run_callback
    \/ run_while
    \/ create_proxy
    \/ fmt
    \/ call_description

Spec == Init /\ [][Next]_vars

\* The thread inside run keeps executing: a callback invocation that is due
\* happens, and so does the test of its result.
FairSpec == Spec /\ WF_vars(run_callback) /\ WF_vars(run_while)

(* ---- helpers of the properties ---- *)

RunReturned == pc = "idle" /\ last = "run"

PollReturned == pc = "idle" /\ last = "poll"

InPoll == pc \in {"poll_1", "poll_2"}

NoDup(s) == \A i, j \in 1..Len(s) : s[i] = s[j] => i = j

(* ---- C1 ---- *)

\* In every state of a run call: the callback has received one C per
\* invocation, Break is the result of the last invocation only (nothing is
\* fetched or dispatched after it), and the callback is invoked again only
\* after Continue; a run call that returned under a policy of K Continues
\* then Break made exactly K+1 invocations.
C1_Counts ==
    /\ (pc \in {"run_call", "run_test"} \/ last = "run") =>
           rec = [i \in 1..Len(results) |-> "C"]
    /\ \A i \in 1..Len(results) : results[i] = "Break" => i = Len(results)
    /\ (pc = "run_call" /\ results # <<>>) => results[Len(results)] = "Continue"
    /\ (RunReturned /\ policy.breaks) =>
           /\ Len(results) = policy.K + 1
           /\ rec = [i \in 1..(policy.K + 1) |-> "C"]
           /\ \A i \in 1..policy.K : results[i] = "Continue"

\* C1: a run call whose callback returns Continue exactly K times and then
\* Break invokes the callback exactly K+1 times and then returns; after the
\* invocation that returned Break the callback is not invoked again.
C1_RunInvokesKPlusOne ==
    /\ []C1_Counts
    /\ ((pc = "run_call" /\ policy.breaks) ~> RunReturned)

\* a run call has returned after two Continues and a Break
C1_Witness ==
    /\ RunReturned
    /\ policy.breaks
    /\ policy.K = MaxK
    /\ results = [i \in 1..(MaxK + 1) |-> IF i <= MaxK THEN "Continue" ELSE "Break"]

(* ---- C2 ---- *)

\* C2: poll_events invokes the callback once per event it has, in order (A
\* before B), is never waiting while it does so, and has recorded exactly
\* [A, B] when it returns.
C2_PollRecordsAB ==
    /\ pc = "poll_1" => rec = <<>>
    /\ pc = "poll_2" => rec = <<"A">>
    /\ PollReturned => rec = <<"A", "B">>
    /\ InPoll => ENABLED (poll_events_1 \/ poll_events_2)

\* a poll_events call has returned with two recorded events
C2_Witness == PollReturned /\ Len(rec) = 2

(* ---- C8 ---- *)

\* C8: as long as every invocation of the callback has returned Continue,
\* run has not returned; run returns only after an invocation returned Break.
C8_ReturnsOnlyOnBreak ==
    /\ (\A i \in 1..Len(results) : results[i] = "Continue") => ~RunReturned
    /\ RunReturned => results[Len(results)] = "Break"
    /\ (last = "run" /\ ~policy.breaks) => pc # "idle"

\* a callback that always returns Continue has been invoked as often as the
\* model allows and the thread is still inside run
C8_Witness ==
    /\ ~policy.breaks
    /\ pc = "run_call"
    /\ Len(results) = MaxCalls
    /\ \A i \in 1..Len(results) : results[i] = "Continue"

(* ---- C9 ---- *)

\* the text the claim gives: "Tried to wake up a closed event loop"
ClaimedText ==
    <<84, 114, 105, 101, 100, 32, 116, 111, 32, 119, 97, 107, 101, 32,
      117, 112, 32, 97, 32, 99, 108, 111, 115, 101, 100, 32,
      101, 118, 101, 110, 116, 32, 108, 111, 111, 112>>

\* the text of the source: "Tried to wake up a closed " followed by
\* EventsLoop between two backquotes (byte 96)
SourceText ==
    <<84, 114, 105, 101, 100, 32, 116, 111, 32, 119, 97, 107, 101, 32,
      117, 112, 32, 97, 32, 99, 108, 111, 115, 101, 100, 32,
      96, 69, 118, 101, 110, 116, 115, 76, 111, 111, 112, 96>>

\* C9 as stated: Display output and description are both the text
\* "Tried to wake up a closed event loop".
C9_Original ==
    /\ \A i \in 1..Len(shown) : shown[i] = ClaimedText
    /\ \A i \in 1..Len(descs) : descs[i] = ClaimedText

\* C9 (amended): Display output and description are both the text
\* "Tried to wake up a closed " + backquote + "EventsLoop" + backquote;
\* Display output always equals description, and fmt only appends to what
\* the formatter already holds.
C9_TextIsSourceLiteral ==
    /\ \A i \in 1..Len(shown) : shown[i] = SourceText
    /\ \A i \in 1..Len(descs) : descs[i] = SourceText
    /\ \A i \in 1..Len(shown) : \A j \in 1..Len(descs) : shown[i] = descs[j]
    /\ \E p \in Prefixes : Len(out) = Len(p) + Len(shown) * Len(SourceText)
                           /\ SubSeq(out, 1, Len(p)) = p

\* fmt has written into a formatter that already held text, and description
\* has been called
C9_Witness ==
    /\ Len(shown) >= 1
    /\ Len(descs) >= 1
    /\ Len(out) > Len(shown) * Len(SourceText)

(* ---- C10 ---- *)

====
